---- MODULE Spec2Model ----
(***************************************************************************)
(* Dairy-farm record keeping (lxmwaniky/dairy-django-backend).             *)
(*                                                                         *)
(* The model holds the database tables the rule engines read and write     *)
(* (cows, pregnancies, lactations, heat records, weight records, culling   *)
(* records), the current calendar day, and the outcome of the last         *)
(* request.  Dates are day numbers (integers); a validator is an operator  *)
(* that returns the code of the ValidationError it raises, or OK.          *)
(***************************************************************************)
EXTENDS Integers, Sequences, FiniteSets

VARIABLES
    today,        \* the calendar day (timezone.now().date())
    cows,         \* core_cow rows, by primary key
    pregnancies,  \* reproduction_pregnancy rows, index = primary key
    lactations,   \* production_lactation rows, index = primary key
    heats,        \* reproduction_heat rows
    weights,      \* health_weightrecord rows
    cullings,     \* health_cullingrecord rows
    milks,        \* production_milk rows
    breeds,       \* core_cowbreed rows (their names)
    response      \* the last request and its result: [op, cow, body, code, pk]
                  \* (code: OK or the error raised; pk: the row written, or 0)

vars == <<today, cows, pregnancies, lactations, heats, weights, cullings, milks,
          breeds, response>>

-----------------------------------------------------------------------------
(* Bounds of the model. *)

MaxDay == 30
MaxPregnancies == 1
MaxLactations == 2
MaxHeats == 2
MaxWeights == 2

CowIds == {1, 2}

-----------------------------------------------------------------------------
(* Vocabulary. *)

\* a NULL date column (models.DateField(null=True))
None == -100000

\* a NULL pregnancy_outcome
NoOutcome == "None"

OK == "ok"

\* no request is being answered: the client has read the last response
NoBody == [cow |-> 0]
Idle == [op |-> "idle", cow |-> 0, code |-> OK, pk |-> 0, body |-> NoBody]

SexChoices == {"Male", "Female"}
CowAvailabilityChoices == {"Alive", "Sold", "Dead"}
CowPregnancyChoices == {"Open", "Pregnant", "Calved", "Unavailable"}
\* the production statuses the model distinguishes (of the twelve choices)
CowProductionStatusChoices == {"Open", "Dry", "Culled", "Calf"}
PregnancyStatusChoices == {"Confirmed", "Unconfirmed", "Failed"}
PregnancyOutcomeChoices == {"Live", "Stillborn", "Miscarriage"}

CowCategoryChoices == {"Calf", "Weaner", "Heifer", "Bull", "Milking Cow"}

\* DATABASES / settings: no ATOMIC_REQUESTS, and no transaction.atomic anywhere:
\* every statement is committed when it is executed (autocommit)
ATOMIC_REQUESTS == FALSE

-----------------------------------------------------------------------------
(* Clock and derived cow fields. *)

\* core.utils.todays_date: the current date
todays_date == today

\* calculate_age with the two dates exchanged
calculate_age_reversed(cow) == cow.date_of_birth - todays_date

\* CowManager.calculate_age
calculate_age(cow) == todays_date - cow.date_of_birth

Truthy(d) == d /= None

-----------------------------------------------------------------------------
(* Pregnancy rule engine. *)

\* PregnancyManager.pregnancy_duration: days since the start, or "Ended"
pregnancy_duration(p) ==
    IF Truthy(p.start_date) /\ ~(Truthy(p.date_of_calving) /\ p.pregnancy_outcome /= NoOutcome)
    THEN [ended |-> FALSE, days |-> todays_date - p.start_date]
    ELSE [ended |-> TRUE, days |-> 0]

\* validate_age with the age threshold read as "at most 365 days"
validate_age_inclusive(age, start_date, cow) ==
    IF age <= 365 THEN "age_below_threshold"
    ELSE IF ~Truthy(start_date) THEN "missing_start_date"
    ELSE IF start_date - cow.date_of_birth < 0 THEN "invalid_start_date"
    ELSE IF start_date - cow.date_of_birth < 365 THEN "pregnancy_age_threshold_not_met"
    ELSE OK

\* PregnancyValidator.validate_age
validate_age(age, start_date, cow) ==
    IF age < 365 THEN "age_below_threshold"
    ELSE IF ~Truthy(start_date) THEN "missing_start_date"
    ELSE IF start_date - cow.date_of_birth < 0 THEN "invalid_start_date"
    ELSE IF start_date - cow.date_of_birth < 365 THEN "pregnancy_age_threshold_not_met"
    ELSE OK

\* validate_cow_current_pregnancy_status without the test for a calved cow
validate_cow_current_pregnancy_status_no_calved(cow) ==
    IF cow.current_pregnancy_status = "Pregnant" THEN "cow_already_pregnant"
    ELSE IF cow.current_pregnancy_status = "Unavailable" THEN "cow_not_ready"
    ELSE OK

\* PregnancyValidator.validate_cow_current_pregnancy_status
validate_cow_current_pregnancy_status(cow) ==
    IF cow.current_pregnancy_status = "Pregnant" THEN "cow_already_pregnant"
    ELSE IF cow.current_pregnancy_status = "Calved" THEN "cow_calved_recently"
    ELSE IF cow.current_pregnancy_status = "Unavailable" THEN "cow_not_ready"
    ELSE OK

\* PregnancyValidator.validate_cow_availability_status
validate_cow_availability_status(cow) ==
    IF cow.availability_status = "Dead" THEN "dead_cow"
    ELSE IF cow.availability_status = "Sold" THEN "sold_cow"
    ELSE OK

\* PregnancyValidator.validate_dates
validate_dates(start_date, date_of_calving) ==
    IF start_date > todays_date THEN "invalid_start_date"
    ELSE IF Truthy(date_of_calving) /\ Truthy(start_date)
    THEN IF date_of_calving < start_date THEN "invalid_date_of_calving"
         ELSE IF date_of_calving > todays_date THEN "invalid_date_of_calving"
         ELSE IF ~(270 <= date_of_calving - start_date /\ date_of_calving - start_date <= 295)
              THEN "invalid_calving_start_date_difference"
         ELSE OK
    ELSE OK

\* validate_pregnancy_status that keeps a status unconfirmable through day 30
validate_pregnancy_status_through_30(pregnancy_status, start_sate, pregnancy_failed_date, duration) ==
    IF pregnancy_status \notin PregnancyStatusChoices THEN "invalid_pregnancy_status_choice"
    ELSE IF pregnancy_status = "Failed" /\ ~Truthy(pregnancy_failed_date)
         THEN "missing_date_of_failure"
    ELSE IF todays_date - start_sate <= 30 /\ pregnancy_status /= "Unconfirmed"
         THEN "too_early_to_confirm_status"
    ELSE IF ~duration.ended /\ duration.days >= 30
            /\ pregnancy_status \notin {"Confirmed", "Failed"}
         THEN "no_code"
    ELSE OK

\* validate_pregnancy_status that asks for a confirmation only after day 30
validate_pregnancy_status_after_30(pregnancy_status, start_sate, pregnancy_failed_date, duration) ==
    IF pregnancy_status \notin PregnancyStatusChoices THEN "invalid_pregnancy_status_choice"
    ELSE IF pregnancy_status = "Failed" /\ ~Truthy(pregnancy_failed_date)
         THEN "missing_date_of_failure"
    ELSE IF todays_date - start_sate < 30 /\ pregnancy_status /= "Unconfirmed"
         THEN "too_early_to_confirm_status"
    ELSE IF ~duration.ended /\ duration.days > 30
            /\ pregnancy_status \notin {"Confirmed", "Failed"}
         THEN "no_code"
    ELSE OK

\* PregnancyValidator.validate_pregnancy_status; its last raise carries no code
validate_pregnancy_status(pregnancy_status, start_sate, pregnancy_failed_date, duration) ==
    IF pregnancy_status \notin PregnancyStatusChoices THEN "invalid_pregnancy_status_choice"
    ELSE IF pregnancy_status = "Failed" /\ ~Truthy(pregnancy_failed_date)
         THEN "missing_date_of_failure"
    ELSE IF todays_date - start_sate < 30 /\ pregnancy_status /= "Unconfirmed"
         THEN "too_early_to_confirm_status"
    ELSE IF ~duration.ended /\ duration.days >= 30
            /\ pregnancy_status \notin {"Confirmed", "Failed"}
         THEN "no_code"
    ELSE OK

\* validate_outcome without the calving date a live birth needs
validate_outcome_no_calving_date(pregnancy_outcome, pregnancy_status, date_of_calving) ==
    IF pregnancy_outcome /= NoOutcome
          /\ pregnancy_outcome \notin PregnancyOutcomeChoices
    THEN "invalid_outcome_choice"
    ELSE IF pregnancy_outcome \in {"Live", "Stillborn"} /\ pregnancy_status /= "Confirmed"
    THEN "invalid_outcome_status"
    ELSE IF pregnancy_outcome = "Miscarriage" /\ pregnancy_status /= "Failed"
    THEN "invalid_outcome_status"
    ELSE IF Truthy(date_of_calving) /\ pregnancy_outcome \notin {"Live", "Stillborn"}
    THEN "missing_outcome"
    ELSE OK

\* validate_outcome without the status a miscarriage needs
validate_outcome_no_miscarriage(pregnancy_outcome, pregnancy_status, date_of_calving) ==
    IF pregnancy_outcome /= NoOutcome
          /\ pregnancy_outcome \notin PregnancyOutcomeChoices
    THEN "invalid_outcome_choice"
    ELSE IF pregnancy_outcome \in {"Live", "Stillborn"} /\ pregnancy_status /= "Confirmed"
    THEN "invalid_outcome_status"
    ELSE IF pregnancy_outcome = "Live" /\ ~Truthy(date_of_calving)
    THEN "missing_date_of_calving"
    ELSE IF Truthy(date_of_calving) /\ pregnancy_outcome \notin {"Live", "Stillborn"}
    THEN "missing_outcome"
    ELSE OK

\* PregnancyValidator.validate_outcome
validate_outcome(pregnancy_outcome, pregnancy_status, date_of_calving) ==
    IF pregnancy_outcome /= NoOutcome
          /\ pregnancy_outcome \notin PregnancyOutcomeChoices
    THEN "invalid_outcome_choice"
    ELSE IF pregnancy_outcome \in {"Live", "Stillborn"} /\ pregnancy_status /= "Confirmed"
    THEN "invalid_outcome_status"
    ELSE IF pregnancy_outcome = "Live" /\ ~Truthy(date_of_calving)
    THEN "missing_date_of_calving"
    ELSE IF pregnancy_outcome = "Miscarriage" /\ pregnancy_status /= "Failed"
    THEN "invalid_outcome_status"
    ELSE IF Truthy(date_of_calving) /\ pregnancy_outcome \notin {"Live", "Stillborn"}
    THEN "missing_outcome"
    ELSE OK

\* the first failure in a list of validator results (each validator raises)
FirstError(codes) ==
    IF \A i \in 1..Len(codes) : codes[i] = OK THEN OK
    ELSE codes[CHOOSE i \in 1..Len(codes) :
                   codes[i] /= OK /\ \A j \in 1..(i - 1) : codes[j] = OK]

\* Pregnancy.clean
PregnancyClean(p) ==
    FirstError(<<
        validate_age(calculate_age(cows[p.cow]), p.start_date, cows[p.cow]),
        validate_cow_current_pregnancy_status(cows[p.cow]),
        validate_cow_availability_status(cows[p.cow]),
        validate_dates(p.start_date, p.date_of_calving),
        validate_pregnancy_status(p.pregnancy_status, p.start_date,
                                  p.pregnancy_failed_date, pregnancy_duration(p)),
        validate_outcome(p.pregnancy_outcome, p.pregnancy_status, p.date_of_calving)
    >>)

-----------------------------------------------------------------------------
(* Lactation rule engine (the part pregnancy saves and manual entry use). *)

\* Lactation.objects.filter(cow=cow)
LactationsOf(cow) == {i \in 1..Len(lactations) : lactations[i].cow = cow}

\* QuerySet.latest() under Meta.get_latest_by = "-start_date": latest() reverses
\* the ordering it is given, so the row returned is the one with the SMALLEST
\* start_date (ties: the database's choice, here the smallest primary key)
LatestLactation(cow) ==
    CHOOSE i \in LactationsOf(cow) :
        \A j \in LactationsOf(cow) :
            \/ lactations[i].start_date < lactations[j].start_date
            \/ lactations[i].start_date = lactations[j].start_date /\ i <= j

\* columns and properties of class Lactation (there is no end_date)
LactationAttrs ==
    {"cow", "start_date", "lactation_number", "pregnancy", "actual_end_date",
     "days_in_lactation", "lactation_stage", "expected_end_date"}

\* LactationValidator.validate_age
lactation_validate_age(start_date, cow) ==
    IF start_date < cow.date_of_birth + 635 THEN "invalid_start_date" ELSE OK

validate_cow_origin(cow) ==
    IF ~cow.is_bought THEN "manual_entry_only_on_bought_cows" ELSE OK

validate_cow_category(category) ==
    IF category /= "Milking Cow" THEN "only_bought_cows_with_calves_allowed" ELSE OK

\* LactationValidator.validate_fields; pregnancy 0 is None.  (age - 635) / 305
\* is a true division: it is below 1 exactly when age - 635 < 305.
validate_fields(start_date, pregnancy, lactation_number, cow, lactation) ==
    IF start_date > todays_date THEN "start_date_in_future"
    ELSE IF Truthy(lactation.actual_end_date) /\ lactation.actual_end_date > todays_date
    THEN "end_date_in_future"
    ELSE IF cow.is_bought /\ pregnancy /= 0 THEN "pregnancy_should_be_null"
    ELSE IF calculate_age(cow) - 635 < 305 /\ lactation_number /= 1
    THEN "invalid_lactation_number"
    ELSE OK

\* Lactation.clean
LactationClean(l) ==
    FirstError(<<
        lactation_validate_age(l.start_date, cows[l.cow]),
        validate_fields(l.start_date, l.pregnancy, l.lactation_number, cows[l.cow], l)
    >>)

\* CowManager.mark_a_recently_calved_cow: the cow's pregnancy status becomes Calved
mark_a_recently_calved_cow(cow) ==
    [cows EXCEPT ![cow].current_pregnancy_status = "Calved"]

\* create_lactation without the lookup of the cow's previous lactation: every
\* calving saved creates a lactation
create_lactation_without_lookup(pk, instance) ==
    IF ~Truthy(instance.date_of_calving)
          /\ instance.pregnancy_outcome \notin {"Live", "Stillborn"}
    THEN [code |-> OK, cows |-> cows, lactations |-> lactations]
    ELSE [code |-> OK, cows |-> mark_a_recently_calved_cow(instance.cow),
          lactations |-> Append(lactations,
                                [cow |-> instance.cow,
                                 start_date |-> instance.date_of_calving,
                                 lactation_number |-> 1, pregnancy |-> pk,
                                 actual_end_date |-> None])]

\* post_save receiver create_lactation for the saved row pk.  Result: the
\* exception that leaves the receiver (OK: none) and the tables as written up
\* to that point.
\*   - no calving date and no Live/Stillborn outcome: return.
\*   - the cow is marked Calved.
\*   - the cow has a lactation: latest() finds it and the test
\*     "not previous_lactation.end_date" reads an attribute class Lactation
\*     does not have: AttributeError.
\*   - the cow has none (DoesNotExist): Lactation.objects.create(start_date =
\*     date_of_calving, cow, pregnancy), lactation_number 1 by default; its
\*     clean() compares the start date (TypeError on None) and validates.
create_lactation(pk, instance) ==
    IF ~Truthy(instance.date_of_calving)
          /\ instance.pregnancy_outcome \notin {"Live", "Stillborn"}
    THEN [code |-> OK, cows |-> cows, lactations |-> lactations]
    ELSE LET marked == mark_a_recently_calved_cow(instance.cow)
             new == [cow |-> instance.cow, start_date |-> instance.date_of_calving,
                     lactation_number |-> 1, pregnancy |-> pk, actual_end_date |-> None]
         IN  IF LactationsOf(instance.cow) /= {}
             THEN [code |-> IF "end_date" \in LactationAttrs THEN OK ELSE "AttributeError",
                   cows |-> marked, lactations |-> lactations]
             ELSE IF ~Truthy(instance.date_of_calving)
             THEN [code |-> "TypeError", cows |-> marked, lactations |-> lactations]
             ELSE IF LactationClean(new) /= OK
             THEN [code |-> LactationClean(new), cows |-> marked, lactations |-> lactations]
             ELSE [code |-> OK, cows |-> marked, lactations |-> Append(lactations, new)]

\* Pregnancy.save on the row with primary key pk (pk = Len + 1 inserts):
\* clean(), then the row is written, then post_save runs.  Nothing opens a
\* transaction, so what was written before an exception stays written.
PregnancySave(pk, p) ==
    LET code == PregnancyClean(p)
        written == IF pk = Len(pregnancies) + 1
                   THEN Append(pregnancies, p)
                   ELSE [pregnancies EXCEPT ![pk] = p]
        signal == create_lactation(pk, p)
        commit == code = OK /\ (signal.code = OK \/ ~ATOMIC_REQUESTS)
    IN  /\ response = Idle
        /\ pregnancies' = IF commit THEN written ELSE pregnancies
        /\ cows' = IF commit THEN signal.cows ELSE cows
        /\ lactations' = IF commit THEN signal.lactations ELSE lactations
        /\ response' = [op |-> "pregnancy_save", cow |-> p.cow,
                        code |-> IF code /= OK THEN code ELSE signal.code,
                        pk |-> IF commit THEN pk ELSE 0, body |-> p]
        /\ UNCHANGED <<today, heats, weights, cullings, milks, breeds>>

\* POST /lactation-records/ (LactationSerializer.create -> Lactation.save)
CreateLactation(l) ==
    LET code == FirstError(<<validate_cow_origin(cows[l.cow]),
                             validate_cow_category(cows[l.cow].category),
                             LactationClean(l)>>)
    IN  /\ response = Idle
        /\ Len(lactations) < MaxLactations
        /\ lactations' = IF code = OK THEN Append(lactations, l) ELSE lactations
        /\ response' = [op |-> "lactation_create", cow |-> l.cow, code |-> code,
                        pk |-> IF code = OK THEN Len(lactations) + 1 ELSE 0,
                        body |-> l]
        /\ UNCHANGED <<today, cows, pregnancies, heats, weights, cullings, milks,
                       breeds>>

\* bodies of POST /lactation-records/
LactationCandidates ==
    [cow : CowIds, start_date : {today - o : o \in {-1, 0, 65, 66}},
     lactation_number : {1, 2}, pregnancy : {0} \cup (1..Len(pregnancies)),
     actual_end_date : {None, today - 30}]

\* The request bodies the model submits.  Dates are chosen around the
\* thresholds of the rules: start_date today - o, date_of_calving start + g.
StartOffsets == {-1, 0, 29, 30, 296}
GestationDays == {269, 270, 295, 296}
StatusAndFailedDate ==
    {<<"Unconfirmed", None>>, <<"Confirmed", None>>, <<"Failed", None>>, <<"Failed", today>>}

PregnancyRecord(cow, start, calving, sf, outcome) ==
    [cow |-> cow, start_date |-> start, date_of_calving |-> calving,
     pregnancy_status |-> sf[1], pregnancy_failed_date |-> sf[2],
     pregnancy_outcome |-> outcome]

\* bodies of POST /pregnancy-records/
PregnancyCandidates ==
    {PregnancyRecord(c, today - o, None, sf, oc) :
        c \in CowIds, o \in StartOffsets, sf \in StatusAndFailedDate,
        oc \in PregnancyOutcomeChoices \cup {NoOutcome}}
    \cup
    {PregnancyRecord(c, today - 296, today - 296 + g, sf, oc) :
        c \in CowIds, g \in GestationDays, sf \in StatusAndFailedDate,
        oc \in PregnancyOutcomeChoices \cup {NoOutcome}}

\* bodies of PUT/PATCH /pregnancy-records/<pk>/: the stored row with one group
\* of fields replaced (or none: a re-save)
PregnancyUpdates(row) ==
    {[row EXCEPT !.cow = c] : c \in CowIds}
    \cup {[row EXCEPT !.start_date = today - o] : o \in StartOffsets}
    \cup {[row EXCEPT !.pregnancy_status = sf[1], !.pregnancy_failed_date = sf[2]] :
             sf \in StatusAndFailedDate}
    \cup {[row EXCEPT !.date_of_calving = dc, !.pregnancy_outcome = oc] :
             dc \in {None} \cup {row.start_date + g : g \in GestationDays},
             oc \in PregnancyOutcomeChoices \cup {NoOutcome}}

\* POST /pregnancy-records/ (PregnancySerializer.save -> Pregnancy.save)
CreatePregnancy(p) ==
    /\ Len(pregnancies) < MaxPregnancies
    /\ PregnancySave(Len(pregnancies) + 1, p)

\* PUT/PATCH /pregnancy-records/<pk>/ (serializer.update -> instance.save)
UpdatePregnancy(pk, p) ==
    /\ pk \in 1..Len(pregnancies)
    /\ PregnancySave(pk, p)

-----------------------------------------------------------------------------
(* Time. *)

\* the calendar moves on by d days between two requests
AdvanceDay(d) ==
    /\ response = Idle
    /\ today + d <= MaxDay
    /\ today' = today + d
    /\ UNCHANGED <<cows, pregnancies, lactations, heats, weights, cullings, milks,
                   breeds, response>>

\* the client reads the response; the server handles one request at a time
ReadResponse ==
    /\ response /= Idle
    /\ response' = Idle
    /\ UNCHANGED <<today, cows, pregnancies, lactations, heats, weights, cullings,
                   milks, breeds>>

-----------------------------------------------------------------------------
(* Initial states and specifications. *)

CowRecords(ages, genders, avails, pregs, prods, boughts, categories) ==
    [date_of_birth : {0 - a : a \in ages},
     gender : genders,
     availability_status : avails,
     current_pregnancy_status : pregs,
     current_production_status : prods,
     is_bought : boughts,
     category : categories]

InitWith(cowRecords) ==
    /\ today = 0
    /\ cows \in [CowIds -> cowRecords]
    /\ pregnancies = <<>>
    /\ lactations = <<>>
    /\ heats = <<>>
    /\ weights = <<>>
    /\ cullings = <<>>
    /\ milks = <<>>
    /\ breeds = <<>>
    /\ response = Idle

\* a calf: the defaults of the Cow model for a newly registered animal
Calf == [date_of_birth |-> -200, gender |-> "Female", availability_status |-> "Alive",
         current_pregnancy_status |-> "Unavailable",
         current_production_status |-> "Calf", is_bought |-> FALSE,
         category |-> "Calf"]

\* cow 1 is any animal, cow 2 is a calf
InitPregnancy ==
    /\ InitWith(CowRecords({200, 365, 700}, {"Female"}, CowAvailabilityChoices,
                           CowPregnancyChoices, {"Open"}, {FALSE}, {"Heifer"})
                \cup {Calf})
    /\ cows[2] = Calf

NextPregnancy ==
    \/ \E p \in PregnancyCandidates : CreatePregnancy(p)
    \/ \E pk \in 1..Len(pregnancies) :
          \E p \in PregnancyUpdates(pregnancies[pk]) : UpdatePregnancy(pk, p)
    \/ AdvanceDay(30)
    \/ ReadResponse

SpecPregnancy == InitPregnancy /\ [][NextPregnancy]_vars

-----------------------------------------------------------------------------
(* Properties of pregnancy records (SpecPregnancy). *)

\* the step stored nothing
NothingStored == UNCHANGED <<cows, pregnancies, lactations, heats, weights, cullings,
                             milks, breeds>>

\* the last request was a pregnancy save that wrote its row
PregnancyWritten == response.op = "pregnancy_save" /\ response.pk /= 0

\* C1 as stated: in every reachable state, a stored pregnancy that has not ended
\* and whose start_date is 30 or more days before today has status Confirmed or
\* Failed.
C1_NeverUnconfirmedPast30 ==
    \A pk \in 1..Len(pregnancies) :
        (~pregnancy_duration(pregnancies[pk]).ended
            /\ today - pregnancies[pk].start_date >= 30)
        => pregnancies[pk].pregnancy_status \in {"Confirmed", "Failed"}

\* C1 as the code keeps it: the rule is applied when a pregnancy is saved, so
\* the row a create or update has just written, if it has not ended and started
\* 30 or more days before today, has status Confirmed or Failed.  (A row nobody
\* saves again stays Unconfirmed while the days pass.)
C1_SavedPast30IsSettled ==
    PregnancyWritten =>
        LET p == pregnancies[response.pk]
        IN  (~pregnancy_duration(p).ended /\ today - p.start_date >= 30)
            => p.pregnancy_status \in {"Confirmed", "Failed"}

\* a save 30 or more days into a pregnancy has just stored it as Failed
C1_Witness ==
    /\ PregnancyWritten
    /\ ~pregnancy_duration(pregnancies[response.pk]).ended
    /\ today - pregnancies[response.pk].start_date >= 30
    /\ pregnancies[response.pk].pregnancy_status = "Failed"

\* C2: every stored pregnancy with outcome Live has a date_of_calving and status
\* Confirmed.
C2_LiveHasCalvingAndConfirmed ==
    \A pk \in 1..Len(pregnancies) :
        pregnancies[pk].pregnancy_outcome = "Live"
        => /\ pregnancies[pk].date_of_calving /= None
           /\ pregnancies[pk].pregnancy_status = "Confirmed"

\* a Live pregnancy is stored
C2_Witness ==
    \E pk \in 1..Len(pregnancies) : pregnancies[pk].pregnancy_outcome = "Live"

\* C8: a pregnancy save for a cow younger than 365 days today is rejected with
\* age_below_threshold; a save whose start_date is less than 365 days after the
\* cow's birth is rejected; each stores nothing.  A save with start_date today
\* and every other field at its default, for a cow that is Alive, Open and at
\* least 365 days old, succeeds and stores the row.
C8_AgeGate ==
    [][response'.op = "pregnancy_save" =>
              LET p == response'.body
                  cow == cows[p.cow]
              IN  /\ today - cow.date_of_birth < 365
                     => response'.code = "age_below_threshold" /\ NothingStored
                  /\ p.start_date - cow.date_of_birth < 365
                     => response'.code /= OK /\ NothingStored
                  /\ (/\ today - cow.date_of_birth >= 365
                      /\ cow.availability_status = "Alive"
                      /\ cow.current_pregnancy_status = "Open"
                      /\ p = PregnancyRecord(p.cow, today, None,
                                             <<"Unconfirmed", None>>, NoOutcome))
                     => /\ response'.code = OK
                        /\ response'.pk /= 0
                        /\ pregnancies'[response'.pk] = p]_vars

\* a pregnancy starting today has just been stored for a cow aged exactly 365 days
C8_Witness ==
    /\ PregnancyWritten
    /\ response.code = OK
    /\ pregnancies[response.pk].start_date = today
    /\ today - cows[response.cow].date_of_birth = 365

\* C9: a pregnancy save for a cow whose pregnancy status is Pregnant, Calved or
\* Unavailable, or whose availability is Dead or Sold, is rejected and stores
\* nothing.  The checks run after the age check, pregnancy status before
\* availability: when the age check passes the code is cow_already_pregnant,
\* cow_calved_recently or cow_not_ready, and for an Open cow that is Dead or
\* Sold it is dead_cow or sold_cow.
C9_IneligibleCow ==
    [][response'.op = "pregnancy_save" =>
              LET p == response'.body
                  cow == cows[p.cow]
                  oldEnough == /\ today - cow.date_of_birth >= 365
                               /\ p.start_date - cow.date_of_birth >= 365
                  status == cow.current_pregnancy_status
                  avail == cow.availability_status
              IN  /\ (status \in {"Pregnant", "Calved", "Unavailable"}
                         \/ avail \in {"Dead", "Sold"})
                     => response'.code /= OK /\ NothingStored
                  /\ (oldEnough /\ status = "Pregnant")
                     => response'.code = "cow_already_pregnant"
                  /\ (oldEnough /\ status = "Calved")
                     => response'.code = "cow_calved_recently"
                  /\ (oldEnough /\ status = "Unavailable")
                     => response'.code = "cow_not_ready"
                  /\ (oldEnough /\ status = "Open" /\ avail = "Dead")
                     => response'.code = "dead_cow"
                  /\ (oldEnough /\ status = "Open" /\ avail = "Sold")
                     => response'.code = "sold_cow"]_vars

\* a save for a cow that has calved was refused with cow_calved_recently
C9_Witness ==
    /\ response.op = "pregnancy_save"
    /\ response.code = "cow_calved_recently"
    /\ cows[response.cow].current_pregnancy_status = "Calved"
    /\ response.pk = 0

\* the cow can carry a pregnancy that started on start_date
EligibleFor(cow, start_date) ==
    /\ today - cow.date_of_birth >= 365
    /\ start_date - cow.date_of_birth >= 365
    /\ cow.current_pregnancy_status = "Open"
    /\ cow.availability_status = "Alive"

\* C10: while today - start_date < 30 a pregnancy save with a status other than
\* Unconfirmed is rejected and stores nothing, with too_early_to_confirm_status
\* when the cow is eligible, the dates are valid and a Failed status comes with
\* its failure date.  Once today - start_date >= 30, Confirmed, and Failed with
\* its failure date, are accepted for an eligible cow and a pregnancy with no
\* calving date and no outcome.
C10_ConfirmationWindow ==
    [][response'.op = "pregnancy_save" =>
              LET p == response'.body
                  plain == /\ EligibleFor(cows[p.cow], p.start_date)
                           /\ p.start_date <= today
                           /\ p.date_of_calving = None
                           /\ (p.pregnancy_status = "Failed"
                                  => p.pregnancy_failed_date /= None)
              IN  /\ (today - p.start_date < 30 /\ p.pregnancy_status /= "Unconfirmed")
                     => /\ response'.code /= OK
                        /\ NothingStored
                        /\ plain => response'.code = "too_early_to_confirm_status"
                  /\ (/\ today - p.start_date >= 30
                      /\ p.pregnancy_status \in {"Confirmed", "Failed"}
                      /\ p.pregnancy_outcome = NoOutcome
                      /\ plain)
                     => /\ response'.code = OK
                        /\ response'.pk /= 0
                        /\ pregnancies'[response'.pk] = p]_vars

\* a pregnancy that started exactly 30 days ago has just been stored as Confirmed
C10_Witness ==
    /\ PregnancyWritten
    /\ response.code = OK
    /\ today - pregnancies[response.pk].start_date = 30
    /\ pregnancies[response.pk].pregnancy_status = "Confirmed"
    /\ pregnancies[response.pk].date_of_calving = None

\* the checks Pregnancy.clean makes before validate_outcome pass for body p
PassesBeforeOutcome(p) ==
    /\ validate_age(calculate_age(cows[p.cow]), p.start_date, cows[p.cow]) = OK
    /\ validate_cow_current_pregnancy_status(cows[p.cow]) = OK
    /\ validate_cow_availability_status(cows[p.cow]) = OK
    /\ validate_dates(p.start_date, p.date_of_calving) = OK
    /\ validate_pregnancy_status(p.pregnancy_status, p.start_date,
                                 p.pregnancy_failed_date, pregnancy_duration(p)) = OK

\* outcome and status of a pregnancy disagree
OutcomeStatusMismatch(p) ==
    \/ p.pregnancy_outcome = "Stillborn" /\ p.pregnancy_status /= "Confirmed"
    \/ p.pregnancy_outcome = "Miscarriage" /\ p.pregnancy_status /= "Failed"

\* a calving date without a Live or Stillborn outcome
CalvingWithoutOutcome(p) ==
    p.date_of_calving /= None /\ p.pregnancy_outcome \notin {"Live", "Stillborn"}

\* C11: a pregnancy save whose body has outcome Stillborn without status
\* Confirmed, outcome Miscarriage without status Failed, or a date_of_calving
\* without outcome Live or Stillborn is rejected and stores nothing, so no row
\* written by a save has any of the three.  When the checks made before the
\* outcome check pass, the code is invalid_outcome_status for the first two and
\* missing_outcome for the third (the first two taking precedence).
C11_OutcomeConsistency ==
    [][response'.op = "pregnancy_save" =>
          LET p == response'.body
          IN  /\ (OutcomeStatusMismatch(p) \/ CalvingWithoutOutcome(p))
                 => response'.code /= OK /\ NothingStored
              /\ (PassesBeforeOutcome(p) /\ OutcomeStatusMismatch(p))
                 => response'.code = "invalid_outcome_status"
              /\ (PassesBeforeOutcome(p) /\ ~OutcomeStatusMismatch(p)
                     /\ CalvingWithoutOutcome(p))
                 => response'.code = "missing_outcome"
              /\ \A pk \in 1..Len(pregnancies') :
                    /\ ~OutcomeStatusMismatch(pregnancies'[pk])
                    /\ ~CalvingWithoutOutcome(pregnancies'[pk])]_vars

\* a miscarriage reported for a Confirmed pregnancy has just been refused with
\* invalid_outcome_status
C11_Witness ==
    /\ response.op = "pregnancy_save"
    /\ response.code = "invalid_outcome_status"
    /\ response.body.pregnancy_outcome = "Miscarriage"
    /\ response.body.pregnancy_status = "Confirmed"
    /\ response.pk = 0

-----------------------------------------------------------------------------
(* Calving: pregnancy saves that carry a calving, and the lactations they    *)
(* meet (SpecCalving).                                                       *)

\* bodies of POST /pregnancy-records/ for a pregnancy that began 296 days ago
CalvingCandidates ==
    {PregnancyRecord(c, today - 296, dc, sf, oc) :
        c \in CowIds, dc \in {None, today - 26},
        sf \in {<<"Confirmed", None>>, <<"Failed", today>>},
        oc \in PregnancyOutcomeChoices \cup {NoOutcome}}

\* cow 1 is a grown cow, born on the farm or bought, a heifer or in milk; cow 2
\* is a calf
InitCalving ==
    /\ InitWith(CowRecords({700, 1000}, {"Female"}, {"Alive"}, {"Open"}, {"Open"},
                           BOOLEAN, {"Heifer", "Milking Cow"})
                \cup {Calf})
    /\ cows[1] /= Calf
    /\ cows[2] = Calf

NextCalving ==
    \/ \E l \in LactationCandidates : CreateLactation(l)
    \/ \E p \in CalvingCandidates : CreatePregnancy(p)
    \/ \E pk \in 1..Len(pregnancies) :
          \E p \in PregnancyUpdates(pregnancies[pk]) : UpdatePregnancy(pk, p)
    \/ ReadResponse

SpecCalving == InitCalving /\ [][NextCalving]_vars

\* the cow's lactation that started last
MostRecentLactation(cow) ==
    CHOOSE i \in LactationsOf(cow) :
        \A j \in LactationsOf(cow) :
            \/ lactations[i].start_date > lactations[j].start_date
            \/ lactations[i].start_date = lactations[j].start_date /\ i >= j

\* C3: when a save has written a pregnancy with outcome Live and calving date D
\* for a cow whose most recent lactation was open with lactation_number n, then
\* that lactation now ends on D - 1 and exactly one lactation has been added:
\* it starts on D, is linked to the pregnancy and has lactation_number n + 1.
C3_LiveCalvingRollsLactation ==
    [][(/\ response'.op = "pregnancy_save"
        /\ response'.pk /= 0
        /\ response'.body.pregnancy_outcome = "Live"
        /\ response'.body.date_of_calving /= None
        /\ LactationsOf(response'.cow) /= {}
        /\ lactations[MostRecentLactation(response'.cow)].actual_end_date = None)
       => LET old == MostRecentLactation(response'.cow)
              D == response'.body.date_of_calving
          IN  /\ Len(lactations') = Len(lactations) + 1
              /\ lactations'[old].actual_end_date = D - 1
              /\ lactations'[Len(lactations')] =
                     [cow |-> response'.cow, start_date |-> D,
                      lactation_number |-> lactations[old].lactation_number + 1,
                      pregnancy |-> response'.pk, actual_end_date |-> None]]_vars

\* C4: after a save has written a pregnancy whose outcome is Live or Stillborn,
\* a lactation linked to that pregnancy exists and the cow's
\* current_pregnancy_status is Calved.
C4_CalvingOpensLactation ==
    (PregnancyWritten
        /\ pregnancies[response.pk].pregnancy_outcome \in {"Live", "Stillborn"})
    => /\ \E i \in LactationsOf(response.cow) : lactations[i].pregnancy = response.pk
       /\ cows[response.cow].current_pregnancy_status = "Calved"

\* C7: a pregnancy save that ends in an error (of a validator or of the
\* post-save side effects) leaves the stored state as it was.
C7_FailedSaveStoresNothing ==
    [][(response'.op = "pregnancy_save" /\ response'.code /= OK)
       => NothingStored]_vars

-----------------------------------------------------------------------------
(* Heat records (SpecHeat).  observation_time is a datetime: the model counts *)
(* it in half days, 2 * day + part with part 0 (morning) or 1 (evening), so   *)
(* a day is 2 units and 21 days are 42.                                       *)

\* timezone.now(), for a request made in the given part of today
now(part) == 2 * today + part

\* cow.heat_records.filter(observation_time__range=(from, to)).exists();
\* the range is inclusive at both ends
HeatInRange(cow, from, to) ==
    \E i \in 1..Len(heats) :
        /\ heats[i].cow = cow
        /\ from <= heats[i].observation_time
        /\ heats[i].observation_time <= to

\* cow.pregnancies
PregnanciesOf(cow) == {i \in 1..Len(pregnancies) : pregnancies[i].cow = cow}

\* cow.pregnancies.latest("-date_of_calving"): latest() reverses the ordering
\* it is given, so this is the row with the SMALLEST date_of_calving, a NULL
\* before any date
LatestPregnancy(cow) ==
    CHOOSE i \in PregnanciesOf(cow) :
        \A j \in PregnanciesOf(cow) :
            \/ pregnancies[i].date_of_calving < pregnancies[j].date_of_calving
            \/ pregnancies[i].date_of_calving = pregnancies[j].date_of_calving /\ i <= j

\* HeatValidator.validate_pregnancy
validate_pregnancy(cow) ==
    IF cow.current_pregnancy_status = "Pregnant" THEN "cow_already_pregnant" ELSE OK

\* HeatValidator.validate_production_status
validate_production_status(cow) ==
    IF cow.current_production_status /= "Open" THEN "invalid_production_status" ELSE OK

\* HeatValidator.validate_already_in_heat
validate_already_in_heat(cow, part) ==
    IF HeatInRange(cow, now(part) - 2, now(part)) THEN "already_in_heat" ELSE OK

\* HeatValidator.validate_dead
validate_dead(cow) ==
    IF cow.availability_status = "Dead" THEN "dead_cow" ELSE OK

\* HeatValidator.validate_gender
validate_gender(cow) ==
    IF cow.gender = "Male" THEN "invalid_gender" ELSE OK

\* HeatValidator.validate_within_60_days_after_calving; observation_time.date()
\* is observation_time \div 2, and a NULL date_of_calving cannot be subtracted
validate_within_60_days_after_calving(cow, observation_time) ==
    IF PregnanciesOf(cow) = {} \/ cows[cow].current_pregnancy_status /= "Calved" THEN OK
    ELSE IF ~Truthy(pregnancies[LatestPregnancy(cow)].date_of_calving) THEN "TypeError"
    ELSE IF (observation_time \div 2)
                - pregnancies[LatestPregnancy(cow)].date_of_calving < 60
    THEN "in_heat_after_calving"
    ELSE OK

\* validate_within_21_days_of_previous_heat with a window of 22 days
validate_within_22_days_of_previous_heat(cow, observation_time) ==
    IF HeatInRange(cow, observation_time - 44, observation_time)
    THEN "in_heat_within_21_days" ELSE OK

\* HeatValidator.validate_within_21_days_of_previous_heat
validate_within_21_days_of_previous_heat(cow, observation_time) ==
    IF HeatInRange(cow, observation_time - 42, observation_time)
    THEN "in_heat_within_21_days" ELSE OK

\* validate_min_age with a minimum of 364 days
validate_min_age_364(cow) ==
    IF calculate_age(cow) < 364 THEN "invalid_age_for_heat" ELSE OK

\* HeatValidator.validate_min_age
validate_min_age(cow) ==
    IF calculate_age(cow) < 365 THEN "invalid_age_for_heat" ELSE OK

\* Heat.clean
HeatClean(h, part) ==
    FirstError(<<
        validate_pregnancy(cows[h.cow]),
        validate_production_status(cows[h.cow]),
        validate_dead(cows[h.cow]),
        validate_gender(cows[h.cow]),
        validate_within_60_days_after_calving(h.cow, h.observation_time),
        validate_within_21_days_of_previous_heat(h.cow, h.observation_time),
        validate_min_age(cows[h.cow]),
        validate_already_in_heat(h.cow, part)
    >>)

\* POST /heat-records/ with body {cow}: observation_time is not editable and
\* defaults to timezone.now(); the clock does not run backwards
CreateHeat(cow, part) ==
    LET h == [cow |-> cow, observation_time |-> now(part)]
        code == HeatClean(h, part)
    IN  /\ response = Idle
        /\ Len(heats) < MaxHeats
        /\ \A i \in 1..Len(heats) : heats[i].observation_time <= now(part)
        /\ heats' = IF code = OK THEN Append(heats, h) ELSE heats
        /\ response' = [op |-> "heat_create", cow |-> cow, code |-> code,
                        pk |-> IF code = OK THEN Len(heats) + 1 ELSE 0, body |-> h]
        /\ UNCHANGED <<today, cows, pregnancies, lactations, weights, cullings,
                       milks, breeds>>

\* a grown cow that can be served
Adult == [date_of_birth |-> -700, gender |-> "Female", availability_status |-> "Alive",
          current_pregnancy_status |-> "Open",
          current_production_status |-> "Open", is_bought |-> FALSE,
          category |-> "Heifer"]

\* cow 1 is a grown cow, or differs from one in a single field; cow 2 is a
\* grown cow
InitHeat ==
    /\ InitWith({Adult, Calf,
                 [Adult EXCEPT !.date_of_birth = -364],
                 [Adult EXCEPT !.gender = "Male"],
                 [Adult EXCEPT !.availability_status = "Dead"],
                 [Adult EXCEPT !.current_pregnancy_status = "Pregnant"],
                 [Adult EXCEPT !.current_production_status = "Dry"]})
    /\ cows[2] = Adult

\* calvings reported while heat is being observed: ten days ago, or a
\* stillbirth without a date
HeatCalvingCandidates ==
    {PregnancyRecord(1, today - 285, today - 10, <<"Confirmed", None>>, "Live"),
     PregnancyRecord(1, today - 285, None, <<"Confirmed", None>>, "Stillborn")}

\* Users and permissions (users/models.py, users/permissions.py).

Roles == {"farm_owner", "farm_manager", "assistant_farm_manager", "team_leader",
          "farm_worker", "no_role", "anonymous"}

\* the flags CustomUser.assign_<role> leaves on the user; assign_team_leader
\* sets is_farm_worker as well
User(role) ==
    [is_authenticated |-> role /= "anonymous",
     is_farm_owner |-> role = "farm_owner",
     is_farm_manager |-> role = "farm_manager",
     is_assistant_farm_manager |-> role = "assistant_farm_manager",
     is_team_leader |-> role = "team_leader",
     is_farm_worker |-> role \in {"team_leader", "farm_worker"}]

\* a permission class returns True or raises; it never returns False
Permission(user, allowed) ==
    IF user.is_authenticated /\ allowed THEN "True"
    ELSE IF ~user.is_authenticated THEN "AuthenticationFailed"
    ELSE "PermissionDenied"

IsFarmOwner(user) == Permission(user, user.is_farm_owner)

IsFarmManager(user) == Permission(user, user.is_farm_manager \/ user.is_farm_owner)

IsAssistantFarmManager(user) ==
    Permission(user, \/ user.is_assistant_farm_manager
                     \/ user.is_farm_manager
                     \/ user.is_farm_owner)

IsTeamLeader(user) ==
    Permission(user, \/ user.is_team_leader
                     \/ user.is_assistant_farm_manager
                     \/ user.is_farm_manager
                     \/ user.is_farm_owner)

IsFarmWorker(user) ==
    Permission(user, \/ user.is_farm_owner
                     \/ user.is_farm_worker
                     \/ user.is_farm_manager
                     \/ user.is_assistant_farm_manager)

\* A | B: B is asked only when A returned False; an exception raised by A ends
\* the check
PermissionOr(a, b) == IF a = "False" THEN b ELSE a

\* HeatViewSet.get_permissions
HeatPermissions(action, user) ==
    IF action = "create"
    THEN PermissionOr(PermissionOr(PermissionOr(IsFarmWorker(user),
                                                IsAssistantFarmManager(user)),
                                   IsFarmManager(user)),
                      IsFarmOwner(user))
    ELSE PermissionOr(PermissionOr(PermissionOr(PermissionOr(IsFarmWorker(user),
                                                             IsTeamLeader(user)),
                                                IsAssistantFarmManager(user)),
                                   IsFarmManager(user)),
                      IsFarmOwner(user))

\* ModelViewSet.destroy, which HeatViewSet overrides: the row is removed
heat_destroy_default(pk) ==
    [code |-> "204",
     heats |-> SubSeq(heats, 1, pk - 1) \o SubSeq(heats, pk + 1, Len(heats))]

\* HeatViewSet.partial_update, update and destroy
heat_partial_update(pk) == [code |-> "MethodNotAllowed", heats |-> heats]

heat_update(pk) == [code |-> "MethodNotAllowed", heats |-> heats]

heat_destroy(pk) == [code |-> "MethodNotAllowed", heats |-> heats]

\* a request on /heat-records/<pk>/: permissions are checked, then the handler
\* runs
HeatDetailRequest(action, role, pk, handled) ==
    LET permission == HeatPermissions(action, User(role))
    IN  /\ response = Idle
        /\ pk \in 1..Len(heats)
        /\ heats' = IF permission = "True" THEN handled.heats ELSE heats
        /\ response' = [op |-> "heat_" \o action, cow |-> heats[pk].cow,
                        code |-> IF permission = "True" THEN handled.code ELSE permission,
                        pk |-> pk, body |-> [cow |-> heats[pk].cow, role |-> role]]
        /\ UNCHANGED <<today, cows, pregnancies, lactations, weights, cullings,
                       milks, breeds>>

PartialUpdateHeat(role, pk) ==
    HeatDetailRequest("partial_update", role, pk, heat_partial_update(pk))

UpdateHeat(role, pk) == HeatDetailRequest("update", role, pk, heat_update(pk))

DestroyHeat(role, pk) == HeatDetailRequest("destroy", role, pk, heat_destroy(pk))

NextHeat ==
    \/ \E c \in CowIds, part \in {0, 1} : CreateHeat(c, part)
    \/ \E p \in HeatCalvingCandidates : CreatePregnancy(p)
    \/ AdvanceDay(5)
    \/ AdvanceDay(21)
    \/ AdvanceDay(22)
    \/ \E role \in Roles, pk \in 1..Len(heats) : PartialUpdateHeat(role, pk)
    \/ \E role \in Roles, pk \in 1..Len(heats) : UpdateHeat(role, pk)
    \/ \E role \in Roles, pk \in 1..Len(heats) : DestroyHeat(role, pk)
    \/ ReadResponse

SpecHeat == InitHeat /\ [][NextHeat]_vars

\* C6: a heat record for a cow that has a stored heat record at time t, observed
\* at t or up to 21 days after t, is rejected and stores nothing, with code
\* in_heat_within_21_days when the cow passes the checks made before this one
\* (not pregnant, production status Open, not dead, not male, not calved); one
\* observed 22 days after t, with no heat of the cow in the 21 days before it and
\* the cow eligible (those checks, and an age of at least 365 days), succeeds
\* and is stored.
C6_HeatEvery21Days ==
    [][response'.op = "heat_create" =>
          LET c == response'.cow
              obs == response'.body.observation_time
              recent == \E i \in 1..Len(heats) :
                           /\ heats[i].cow = c
                           /\ 0 <= obs - heats[i].observation_time
                           /\ obs - heats[i].observation_time <= 42
              eligible == /\ cows[c].current_pregnancy_status = "Open"
                          /\ cows[c].current_production_status = "Open"
                          /\ cows[c].availability_status /= "Dead"
                          /\ cows[c].gender = "Female"
          IN  /\ recent => response'.code /= OK /\ NothingStored
              /\ (recent /\ eligible) => response'.code = "in_heat_within_21_days"
              /\ (/\ \E i \in 1..Len(heats) :
                        heats[i].cow = c /\ obs - heats[i].observation_time = 44
                  /\ ~recent
                  /\ eligible
                  /\ today - cows[c].date_of_birth >= 365)
                 => /\ response'.code = OK
                    /\ heats' = Append(heats, response'.body)]_vars

\* a heat record has just been stored 22 days after the cow's earlier one
C6_Witness ==
    /\ response.op = "heat_create"
    /\ response.code = OK
    /\ \E i \in 1..Len(heats) :
          /\ heats[i].cow = response.cow
          /\ response.body.observation_time - heats[i].observation_time = 44

\* the roles that pass the permission check of a heat record's detail handlers
HeatRolesPermitted == {role \in Roles : HeatPermissions("update", User(role)) = "True"}

C19_HeatEligibility ==
    [][response'.op = "heat_create" =>
          LET c == cows[response'.cow]
              obs == response'.body.observation_time
              pregnant == c.current_pregnancy_status = "Pregnant"
              notOpen == c.current_production_status /= "Open"
              dead == c.availability_status = "Dead"
              male == c.gender = "Male"
              young == today - c.date_of_birth < 365
          IN  /\ (pregnant \/ notOpen \/ dead \/ male \/ young)
                 => response'.code /= OK /\ NothingStored
              /\ pregnant => response'.code = "cow_already_pregnant"
              /\ (~pregnant /\ notOpen) => response'.code = "invalid_production_status"
              /\ (~pregnant /\ ~notOpen /\ dead) => response'.code = "dead_cow"
              /\ (~pregnant /\ ~notOpen /\ ~dead /\ male)
                 => response'.code = "invalid_gender"
              /\ (/\ ~pregnant /\ ~notOpen /\ ~dead /\ ~male /\ young
                  /\ validate_within_60_days_after_calving(response'.cow, obs) = OK
                  /\ validate_within_21_days_of_previous_heat(response'.cow, obs) = OK)
                 => response'.code = "invalid_age_for_heat"
              /\ response'.pk /= 0
                 => /\ heats' = Append(heats, response'.body)
                    /\ ~pregnant /\ ~notOpen /\ ~dead /\ ~male /\ ~young]_vars

\* a heat record for a cow of 364 days has just been rejected for its age
C19_Witness ==
    /\ response.op = "heat_create"
    /\ today - cows[response.cow].date_of_birth = 364
    /\ response.code = "invalid_age_for_heat"
    /\ response.pk = 0

-----------------------------------------------------------------------------
(* Weight records (SpecWeight). *)

\* WeightRecordValidator.validate_weight
validate_weight(weight_in_kgs) ==
    IF weight_in_kgs < 10 THEN "invalid_weight"
    ELSE IF weight_in_kgs > 1500 THEN "invalid_weight"
    ELSE OK

\* WeightRecordValidator.validate_cow_availability_status
weight_validate_cow_availability_status(cow) ==
    IF cow.availability_status /= "Alive" THEN "invalid_availability_status" ELSE OK

\* WeightRecordValidator.validate_frequency_of_weight_records: more than one
\* stored row of the cow with this date_taken.  A date_taken of None matches no
\* row (the column is never NULL).
validate_frequency_of_weight_records(date_taken, cow) ==
    IF Cardinality({i \in 1..Len(weights) :
                       weights[i].cow = cow /\ weights[i].date_taken = date_taken}) > 1
    THEN "duplicate_weight_record" ELSE OK

\* WeightRecord.clean
WeightClean(w) ==
    FirstError(<<
        validate_weight(w.weight_in_kgs),
        weight_validate_cow_availability_status(cows[w.cow]),
        validate_frequency_of_weight_records(w.date_taken, w.cow)
    >>)

\* POST /weight-records/: date_taken is auto_now_add, so it is None while
\* clean() runs and becomes today when the row is inserted
CreateWeight(cow, weight_in_kgs) ==
    LET w == [cow |-> cow, weight_in_kgs |-> weight_in_kgs, date_taken |-> None]
        code == WeightClean(w)
    IN  /\ response = Idle
        /\ Len(weights) < MaxWeights
        /\ weights' = IF code = OK
                      THEN Append(weights, [w EXCEPT !.date_taken = todays_date])
                      ELSE weights
        /\ response' = [op |-> "weight_create", cow |-> cow, code |-> code,
                        pk |-> IF code = OK THEN Len(weights) + 1 ELSE 0, body |-> w]
        /\ UNCHANGED <<today, cows, pregnancies, lactations, heats, cullings, milks,
                       breeds>>

\* PUT/PATCH /weight-records/<pk>/: the stored row keeps its date_taken
UpdateWeight(pk, cow, weight_in_kgs) ==
    LET w == [weights[pk] EXCEPT !.cow = cow, !.weight_in_kgs = weight_in_kgs]
        code == WeightClean(w)
    IN  /\ response = Idle
        /\ pk \in 1..Len(weights)
        /\ weights' = IF code = OK THEN [weights EXCEPT ![pk] = w] ELSE weights
        /\ response' = [op |-> "weight_update", cow |-> cow, code |-> code,
                        pk |-> IF code = OK THEN pk ELSE 0, body |-> w]
        /\ UNCHANGED <<today, cows, pregnancies, lactations, heats, cullings, milks,
                       breeds>>

\* weights submitted, around the limits of 10 and 1500 kg
WeightCandidates == {9, 10, 1500, 1501}

\* cow 1 is a grown cow, alive, sold or dead; cow 2 is a grown cow
InitWeight ==
    /\ InitWith({[Adult EXCEPT !.availability_status = a] : a \in CowAvailabilityChoices})
    /\ cows[2] = Adult

NextWeight ==
    \/ \E c \in CowIds, kg \in WeightCandidates : CreateWeight(c, kg)
    \/ \E pk \in 1..Len(weights), c \in CowIds, kg \in WeightCandidates :
          UpdateWeight(pk, c, kg)
    \/ AdvanceDay(15)
    \/ ReadResponse

SpecWeight == InitWeight /\ [][NextWeight]_vars

\* C5, the stored state it promises: no cow has two weight records with the
\* same date_taken.
C5_OneWeightPerCowPerDay ==
    \A i, j \in 1..Len(weights) :
        (i /= j /\ weights[i].cow = weights[j].cow)
        => weights[i].date_taken /= weights[j].date_taken

-----------------------------------------------------------------------------
(* Culling records and cow updates (SpecCulling). *)

\* Cow.clean for a stored cow (self.pk set): validate_production_status_2 and
\* validate_age_category, the compatibility of category, production status
\* and age.  Culling is open to every cow and the requests below change no
\* category, age or production status other than by culling: the checks pass.
CowCleanOnUpdate(cow) == OK

\* Cow.save on a stored cow: clean(), then the row is written
CowSave(pk, cow) ==
    [code |-> CowCleanOnUpdate(cow),
     cows |-> IF CowCleanOnUpdate(cow) = OK THEN [cows EXCEPT ![pk] = cow] ELSE cows]

\* post_save receiver set_cow_production_status_to_culled
set_cow_production_status_to_culled(instance) ==
    IF cows[instance.cow].current_production_status /= "Culled"
    THEN CowSave(instance.cow,
                 [cows[instance.cow] EXCEPT !.current_production_status = "Culled",
                                            !.current_pregnancy_status = "Unavailable"])
    ELSE [code |-> OK, cows |-> cows]

\* the cow's culling records (cow is a OneToOneField: at most one)
CullingsOf(cow) == {i \in 1..Len(cullings) : cullings[i].cow = cow}

\* POST /culling-records/: CullingRecord has no clean(); the insert fails on
\* the unique cow column when the cow has a record; then post_save runs, with
\* no transaction around the two
CreateCulling(cow) ==
    LET instance == [cow |-> cow]
        unique == CullingsOf(cow) = {}
        signal == set_cow_production_status_to_culled(instance)
    IN  /\ response = Idle
        /\ cullings' = IF unique THEN Append(cullings, instance) ELSE cullings
        /\ cows' = IF unique THEN signal.cows ELSE cows
        /\ response' = [op |-> "culling_create", cow |-> cow,
                        code |-> IF ~unique THEN "IntegrityError" ELSE signal.code,
                        pk |-> IF unique THEN Len(cullings) + 1 ELSE 0,
                        body |-> instance]
        /\ UNCHANGED <<today, pregnancies, lactations, heats, weights, milks, breeds>>

\* DELETE /culling-records/<pk>/
DeleteCulling(pk) ==
    /\ response = Idle
    /\ pk \in 1..Len(cullings)
    /\ cullings' = SubSeq(cullings, 1, pk - 1) \o SubSeq(cullings, pk + 1, Len(cullings))
    /\ response' = [op |-> "culling_delete", cow |-> cullings[pk].cow, code |-> OK,
                    pk |-> pk, body |-> NoBody]
    /\ UNCHANGED <<today, cows, pregnancies, lactations, heats, weights, milks,
                   breeds>>

\* PATCH /cows/<pk>/ with body {current_pregnancy_status}: CowSerializer.update
\* sets the field and saves the cow
UpdateCow(pk, current_pregnancy_status) ==
    LET saved == CowSave(pk, [cows[pk] EXCEPT
                                 !.current_pregnancy_status = current_pregnancy_status])
    IN  /\ response = Idle
        /\ cows' = saved.cows
        /\ response' = [op |-> "cow_update", cow |-> pk, code |-> saved.code,
                        pk |-> IF saved.code = OK THEN pk ELSE 0,
                        body |-> [cow |-> pk,
                                  current_pregnancy_status |-> current_pregnancy_status]]
        /\ UNCHANGED <<today, pregnancies, lactations, heats, weights, cullings,
                       milks, breeds>>

\* cow 1 is a grown cow, a calf, a bull or a dry cow; cow 2 is a grown cow
InitCulling ==
    /\ InitWith({Adult, Calf,
                 [Adult EXCEPT !.gender = "Male", !.category = "Bull",
                               !.current_pregnancy_status = "Unavailable"],
                 [Adult EXCEPT !.current_production_status = "Dry",
                               !.category = "Milking Cow"]})
    /\ cows[2] = Adult

NextCulling ==
    \/ \E c \in CowIds : CreateCulling(c)
    \/ \E pk \in 1..Len(cullings) : DeleteCulling(pk)
    \/ \E c \in CowIds, ps \in CowPregnancyChoices : UpdateCow(c, ps)
    \/ ReadResponse

SpecCulling == InitCulling /\ [][NextCulling]_vars

\* C12: right after a culling record has been created for a cow, the cow's
\* current_production_status is Culled and its current_pregnancy_status is
\* Unavailable.
C12_CullingFlipsCow ==
    (response.op = "culling_create" /\ response.pk /= 0)
    => /\ cows[response.cow].current_production_status = "Culled"
       /\ cows[response.cow].current_pregnancy_status = "Unavailable"

-----------------------------------------------------------------------------
(* Changing and deleting lactation and culling records (SpecRecords).  A
   row's position in its sequence stands for its primary key during one
   request. *)

\* LactationViewSet.get_permissions
LactationPermissions(action, user) ==
    IF action \in {"create", "destroy"}
    THEN PermissionOr(IsFarmManager(user), IsFarmOwner(user))
    ELSE PermissionOr(PermissionOr(PermissionOr(IsFarmWorker(user),
                                                IsAssistantFarmManager(user)),
                                   IsFarmManager(user)),
                      IsFarmOwner(user))

\* CullingRecordViewSet.permission_classes
CullingPermissions(action, user) == PermissionOr(IsFarmManager(user), IsFarmOwner(user))

\* instance.delete() of lactation pk: the row goes, and with it the milk
\* records of that lactation (Milk.lactation is on_delete=CASCADE); the rows
\* after it move up one position
WithoutLactation(pk) ==
    LET kept == SelectSeq(milks, LAMBDA m : m.lactation /= pk)
    IN  [lactations |-> SubSeq(lactations, 1, pk - 1)
                        \o SubSeq(lactations, pk + 1, Len(lactations)),
         milks |-> [i \in 1..Len(kept) |->
                       IF kept[i].lactation > pk
                       THEN [kept[i] EXCEPT !.lactation = @ - 1] ELSE kept[i]]]

\* ModelViewSet.update, which LactationViewSet overrides: the body is
\* validated and written over the row
lactation_update_default(pk, body) ==
    [code |-> LactationClean(body),
     lactations |-> IF LactationClean(body) = OK
                    THEN [lactations EXCEPT ![pk] = body] ELSE lactations,
     milks |-> milks]

\* LactationViewSet.update and partial_update
lactation_update(pk, body) ==
    [code |-> "MethodNotAllowed", lactations |-> lactations, milks |-> milks]

lactation_partial_update(pk, body) ==
    [code |-> "MethodNotAllowed", lactations |-> lactations, milks |-> milks]

\* LactationViewSet.destroy without its test of instance.pregnancy
lactation_destroy_unguarded(pk) ==
    [code |-> "204", lactations |-> WithoutLactation(pk).lactations,
     milks |-> WithoutLactation(pk).milks]

\* LactationViewSet.destroy; pregnancy 0 is None
lactation_destroy(pk) ==
    IF lactations[pk].pregnancy /= 0
    THEN [code |-> "PermissionDenied", lactations |-> lactations, milks |-> milks]
    ELSE [code |-> "204", lactations |-> WithoutLactation(pk).lactations,
          milks |-> WithoutLactation(pk).milks]

\* CullingRecordViewSet.update and partial_update
culling_update(pk, body) == [code |-> "MethodNotAllowed", cullings |-> cullings]

culling_partial_update(pk, body) == [code |-> "MethodNotAllowed", cullings |-> cullings]

\* a request on /lactation-records/<pk>/: permissions, then the handler
LactationDetailRequest(action, role, pk, body, handled) ==
    LET permission == LactationPermissions(action, User(role))
    IN  /\ response = Idle
        /\ pk \in 1..Len(lactations)
        /\ lactations' = IF permission = "True" THEN handled.lactations ELSE lactations
        /\ milks' = IF permission = "True" THEN handled.milks ELSE milks
        /\ response' = [op |-> "lactation_" \o action, cow |-> lactations[pk].cow,
                        code |-> IF permission = "True" THEN handled.code ELSE permission,
                        pk |-> pk, body |-> [cow |-> lactations[pk].cow, role |-> role,
                                             data |-> body]]
        /\ UNCHANGED <<today, cows, pregnancies, heats, weights, cullings, breeds>>

UpdateLactation(role, pk, body) ==
    LactationDetailRequest("update", role, pk, body, lactation_update(pk, body))

PartialUpdateLactation(role, pk, body) ==
    LactationDetailRequest("partial_update", role, pk, body,
                           lactation_partial_update(pk, body))

DestroyLactation(role, pk) ==
    LactationDetailRequest("destroy", role, pk, NoBody, lactation_destroy(pk))

\* a request on /culling-records/<pk>/: permissions, then the handler
CullingDetailRequest(action, role, pk, body, handled) ==
    LET permission == CullingPermissions(action, User(role))
    IN  /\ response = Idle
        /\ pk \in 1..Len(cullings)
        /\ cullings' = IF permission = "True" THEN handled.cullings ELSE cullings
        /\ response' = [op |-> "culling_" \o action, cow |-> cullings[pk].cow,
                        code |-> IF permission = "True" THEN handled.code ELSE permission,
                        pk |-> pk, body |-> [cow |-> cullings[pk].cow, role |-> role,
                                             data |-> body]]
        /\ UNCHANGED <<today, cows, pregnancies, lactations, heats, weights, milks,
                       breeds>>

UpdateCulling(role, pk, body) ==
    CullingDetailRequest("update", role, pk, body, culling_update(pk, body))

PartialUpdateCulling(role, pk, body) ==
    CullingDetailRequest("partial_update", role, pk, body,
                         culling_partial_update(pk, body))

\* bodies of PUT and PATCH on a lactation record: the stored row with another
\* lactation number or end date (valid), or with a start date in the future
LactationUpdates(row) ==
    {[row EXCEPT !.actual_end_date = today],
     [row EXCEPT !.start_date = today + 1]}

\* bodies of PUT and PATCH on a culling record
CullingUpdates == {[cow |-> c] : c \in CowIds}

\* the records the requests are made on: lactations entered by hand for cow 1,
\* a live calving of cow 1, and a pregnancy of cow 1 without a calving
RecordLactations ==
    {l \in LactationCandidates :
        l.cow = 1 /\ l.start_date = today - 66 /\ l.actual_end_date = None}

RecordCalvings ==
    {PregnancyRecord(1, today - 296, today - 26, <<"Confirmed", None>>, "Live"),
     PregnancyRecord(1, today - 296, None, <<"Confirmed", None>>, NoOutcome)}

NextRecords ==
    \/ \E l \in RecordLactations : CreateLactation(l)
    \/ \E p \in RecordCalvings : CreatePregnancy(p)
    \/ \E c \in CowIds : CreateCulling(c)
    \/ \E role \in Roles, pk \in 1..Len(lactations) :
          \E body \in LactationUpdates(lactations[pk]) : UpdateLactation(role, pk, body)
    \/ \E role \in Roles, pk \in 1..Len(lactations) :
          \E body \in LactationUpdates(lactations[pk]) :
             PartialUpdateLactation(role, pk, body)
    \/ \E role \in Roles, pk \in 1..Len(lactations) : DestroyLactation(role, pk)
    \/ \E role \in Roles, pk \in 1..Len(cullings) :
          \E body \in CullingUpdates : UpdateCulling(role, pk, body)
    \/ \E role \in Roles, pk \in 1..Len(cullings) :
          \E body \in CullingUpdates : PartialUpdateCulling(role, pk, body)
    \/ ReadResponse

SpecRecords == InitCalving /\ [][NextRecords]_vars

\* the users who hold a role
RolesHeld == Roles \ {"no_role", "anonymous"}

UpdateOps ==
    {"lactation_update", "lactation_partial_update", "culling_update",
     "culling_partial_update"}

C15_DeletionGuard ==
    [][(response'.op = "lactation_destroy" /\ response'.body.role \in RolesHeld)
       => LET pk == response'.pk
          IN  /\ lactations[pk].pregnancy /= 0
                 => response'.code = "PermissionDenied" /\ NothingStored
              /\ (/\ lactations[pk].pregnancy = 0
                  /\ response'.body.role \in {"farm_manager", "farm_owner"})
                 => /\ response'.code = "204"
                    /\ Len(lactations') = Len(lactations) - 1
                    /\ \A i \in 1..Len(lactations') :
                          lactations'[i] = lactations[IF i < pk THEN i ELSE i + 1]]_vars

\* a farm manager's DELETE of a lactation opened by a calving has just been
\* refused
C15_Witness ==
    /\ response.op = "lactation_destroy"
    /\ response.body.role = "farm_manager"
    /\ response.code = "PermissionDenied"
    /\ response.pk \in 1..Len(lactations)
    /\ lactations[response.pk].pregnancy /= 0

-----------------------------------------------------------------------------
(* Milk records (SpecMilk).  amount_in_kgs is a decimal with two places and
   is counted in hundredths of a kilogram. *)

MaxMilks == 1

\* DecimalField(decimal_places=2): hundredths in one kilogram
Kg == 100

LactationStageChoices == {"Early", "Mid", "Late", "Dry", "Ended"}

\* LactationManager.days_in_lactation
days_in_lactation(lactation) ==
    IF Truthy(lactation.actual_end_date)
    THEN lactation.actual_end_date - lactation.start_date
    ELSE todays_date - lactation.start_date

\* lactation_stage with < in place of <= in the first test on the days
lactation_stage_below_100(lactation) ==
    IF Truthy(lactation.actual_end_date) THEN "Ended"
    ELSE IF days_in_lactation(lactation) < 100 THEN "Early"
    ELSE IF days_in_lactation(lactation) <= 200 THEN "Mid"
    ELSE IF days_in_lactation(lactation) <= 275 THEN "Late"
    ELSE "Dry"

\* LactationManager.lactation_stage
lactation_stage(lactation) ==
    IF Truthy(lactation.actual_end_date) THEN "Ended"
    ELSE IF days_in_lactation(lactation) <= 100 THEN "Early"
    ELSE IF days_in_lactation(lactation) <= 200 THEN "Mid"
    ELSE IF days_in_lactation(lactation) <= 275 THEN "Late"
    ELSE "Dry"

\* validate_amount_in_kgs with >= in place of > in the second test
validate_amount_in_kgs_below_35(amount_in_kgs) ==
    IF amount_in_kgs < 0 THEN "invalid_amount"
    ELSE IF amount_in_kgs >= 35 * Kg THEN "exceeds_maximum_amount"
    ELSE OK

\* MilkValidator.validate_amount_in_kgs
validate_amount_in_kgs(amount_in_kgs) ==
    IF amount_in_kgs < 0 THEN "invalid_amount"
    ELSE IF amount_in_kgs > 35 * Kg THEN "exceeds_maximum_amount"
    ELSE OK

\* MilkValidator.validate_cow_eligibility; cow is a primary key
validate_cow_eligibility(cow) ==
    IF cows[cow].availability_status = "Dead" THEN "invalid_availability_status"
    ELSE IF cows[cow].availability_status = "Sold" THEN "invalid_availability_status"
    ELSE IF cows[cow].gender /= "Female" THEN "male_cow"
    ELSE IF LactationsOf(cow) = {} THEN "no_active_lactation"
    ELSE IF lactation_stage(lactations[LatestLactation(cow)]) = "Dry" THEN "dried_off_cow"
    ELSE IF lactation_stage(lactations[LatestLactation(cow)]) = "Ended"
    THEN "previous_lactation_ended"
    ELSE OK

\* Milk.clean
MilkClean(m) ==
    FirstError(<<validate_amount_in_kgs(m.amount_in_kgs), validate_cow_eligibility(m.cow)>>)

\* pre_save receiver set_lactation_for_new_milk; lactation 0 is None
set_lactation_for_new_milk(instance) ==
    IF instance.lactation = 0
    THEN IF LactationsOf(instance.cow) = {}
         THEN [code |-> "DoesNotExist", instance |-> instance]
         ELSE [code |-> OK,
               instance |-> [instance EXCEPT !.lactation = LatestLactation(instance.cow)]]
    ELSE [code |-> OK, instance |-> instance]

\* POST /milk-records/: Milk.save runs clean(), then pre_save, then the
\* insert; lactation is not editable and arrives as None, milking_date is set
\* at the insert
CreateMilk(cow, amount_in_kgs) ==
    LET m == [cow |-> cow, amount_in_kgs |-> amount_in_kgs, lactation |-> 0,
              milking_date |-> None]
        code == MilkClean(m)
        signal == set_lactation_for_new_milk(m)
        stored == [signal.instance EXCEPT !.milking_date = today]
        written == code = OK /\ signal.code = OK
    IN  /\ response = Idle
        /\ Len(milks) < MaxMilks
        /\ milks' = IF written THEN Append(milks, stored) ELSE milks
        /\ response' = [op |-> "milk_create", cow |-> cow,
                        code |-> IF code /= OK THEN code ELSE signal.code,
                        pk |-> IF written THEN Len(milks) + 1 ELSE 0, body |-> m]
        /\ UNCHANGED <<today, cows, pregnancies, lactations, heats, weights,
                       cullings, breeds>>

\* amounts around the two limits: -0.01, 0, 35.00 and 35.01 kg
MilkAmounts == {-1, 0, 35 * Kg, 35 * Kg + 1}

\* lactations entered for cow 1: started today, 275 or 276 days ago, open or
\* ended 30 days ago
MilkLactations ==
    [cow : {1}, start_date : {today - o : o \in {0, 275, 276}},
     lactation_number : {1}, pregnancy : {0}, actual_end_date : {None, today - 30}]

\* a bought cow in milk
MilkingCow == [date_of_birth |-> -1000, gender |-> "Female",
               availability_status |-> "Alive", current_pregnancy_status |-> "Open",
               current_production_status |-> "Open", is_bought |-> TRUE,
               category |-> "Milking Cow"]

\* cow 1 is a bought cow in milk, alive, sold or dead; cow 2 is a bull
InitMilk ==
    /\ InitWith({MilkingCow,
                 [MilkingCow EXCEPT !.availability_status = "Sold"],
                 [MilkingCow EXCEPT !.availability_status = "Dead"],
                 [MilkingCow EXCEPT !.gender = "Male", !.category = "Bull"]})
    /\ cows[1].gender = "Female"
    /\ cows[2].gender = "Male"

NextMilk ==
    \/ \E l \in MilkLactations : CreateLactation(l)
    \/ \E c \in CowIds, a \in MilkAmounts : CreateMilk(c, a)
    \/ ReadResponse

SpecMilk == InitMilk /\ [][NextMilk]_vars

\* the cow's lactations with the greatest start_date
GreatestStartLactations(cow) ==
    {i \in LactationsOf(cow) :
        \A j \in LactationsOf(cow) : lactations[i].start_date >= lactations[j].start_date}

\* the code the eligibility rule gives when the lactation looked at is g
EligibilityBy(cow, g) ==
    IF cows[cow].availability_status \in {"Dead", "Sold"} THEN "invalid_availability_status"
    ELSE IF cows[cow].gender /= "Female" THEN "male_cow"
    ELSE IF LactationsOf(cow) = {} THEN "no_active_lactation"
    ELSE IF lactation_stage(lactations[g]) = "Dry" THEN "dried_off_cow"
    ELSE IF lactation_stage(lactations[g]) = "Ended" THEN "previous_lactation_ended"
    ELSE OK

\* C16: a milk record with an acceptable amount is rejected with
\* invalid_availability_status when its cow is Dead or Sold, male_cow when it
\* is not Female, no_active_lactation when it has no lactation,
\* dried_off_cow or previous_lactation_ended when the stage of the cow's
\* lactation with the greatest start_date is Dry or Ended; in every other
\* case it is accepted.
C16_MilkEligibility ==
    [][(response'.op = "milk_create"
        /\ validate_amount_in_kgs(response'.body.amount_in_kgs) = OK)
       => \E g \in GreatestStartLactations(response'.cow) \cup {0} :
             /\ g = 0 <=> LactationsOf(response'.cow) = {}
             /\ response'.code = EligibilityBy(response'.cow, g)]_vars

\* C17: a milk record saved without an explicit lactation is stored with a
\* lactation of its own cow that has the greatest start_date among the cow's
\* lactations.
C17_MilkGetsLatestLactation ==
    [][(response'.op = "milk_create" /\ response'.pk /= 0)
       => milks'[response'.pk].lactation \in GreatestStartLactations(response'.cow)]_vars

-----------------------------------------------------------------------------
(* Heat records saved with an observation time of their own (SpecHeatSave).
   observation_time has default=timezone.now and is not editable: the API
   always stores the current time, while Heat(cow=..., observation_time=t)
   .save() stores t. *)

\* how many days before now a saved heat was observed
BackDays == {10, 21, 22}

\* Heat(cow=cow, observation_time=now - back days).save(): clean(), then the
\* insert
SaveHeat(cow, back, part) ==
    LET h == [cow |-> cow, observation_time |-> now(part) - 2 * back]
        code == HeatClean(h, part)
    IN  /\ response = Idle
        /\ Len(heats) < MaxHeats
        /\ \A i \in 1..Len(heats) : heats[i].observation_time <= now(part)
        /\ heats' = IF code = OK THEN Append(heats, h) ELSE heats
        /\ response' = [op |-> "heat_save", cow |-> cow, code |-> code,
                        pk |-> IF code = OK THEN Len(heats) + 1 ELSE 0, body |-> h]
        /\ UNCHANGED <<today, cows, pregnancies, lactations, weights, cullings,
                       milks, breeds>>

NextHeatSave ==
    \/ \E c \in CowIds, part \in {0, 1} : CreateHeat(c, part)
    \/ \E c \in CowIds, back \in BackDays, part \in {0, 1} : SaveHeat(c, back, part)
    \/ AdvanceDay(5)
    \/ AdvanceDay(21)
    \/ ReadResponse

SpecHeatSave == InitHeat /\ [][NextHeatSave]_vars

\* the time between two observations, in half days
Apart(t1, t2) == IF t1 >= t2 THEN t1 - t2 ELSE t2 - t1

-----------------------------------------------------------------------------
(* A cow followed over several pregnancies (SpecHeatCalving, SpecHerd). *)

MaxCowPregnancies == 2

\* POST /pregnancy-records/ where a cow's history holds more than one
\* pregnancy
RecordPregnancy(p) ==
    /\ Len(pregnancies) < MaxCowPregnancies
    /\ PregnancySave(Len(pregnancies) + 1, p)

\* two calvings of cow 1: 320 days ago and 10 days ago, each after 280 days
CalvingHistory ==
    {PregnancyRecord(1, today - 600, today - 320, <<"Confirmed", None>>, "Live"),
     PregnancyRecord(1, today - 290, today - 10, <<"Confirmed", None>>, "Live")}

\* cow 1 is a cow of 1000 or of 700 days; cow 2 is a grown cow
InitHeatCalving ==
    /\ InitWith({Adult, [Adult EXCEPT !.date_of_birth = -1000]})
    /\ cows[2] = Adult

NextHeatCalving ==
    \/ \E p \in CalvingHistory : RecordPregnancy(p)
    \/ \E ps \in CowPregnancyChoices : UpdateCow(1, ps)
    \/ \E c \in CowIds, part \in {0, 1} : CreateHeat(c, part)
    \/ AdvanceDay(30)
    \/ ReadResponse

SpecHeatCalving == InitHeatCalving /\ [][NextHeatCalving]_vars

\* the calving dates recorded for the cow
CalvingDates(cow) ==
    {pregnancies[i].date_of_calving : i \in {j \in PregnanciesOf(cow) :
                                                Truthy(pregnancies[j].date_of_calving)}}

\* the greatest of a non-empty set of dates
Greatest(dates) == CHOOSE d \in dates : \A e \in dates : e <= d

\* C21: a heat record is rejected and nothing is stored whenever the cow's
\* latest calving, the greatest date_of_calving among its pregnancy records,
\* is less than 60 days before the observation; the code is
\* in_heat_after_calving when the checks made before this one pass.  Stated
\* for cows whose current pregnancy status is Calved.
C21_NoHeatWithin60DaysOfCalving ==
    [][(/\ response'.op = "heat_create"
        /\ cows[response'.cow].current_pregnancy_status = "Calved"
        /\ CalvingDates(response'.cow) /= {}
        /\ (response'.body.observation_time \div 2)
              - Greatest(CalvingDates(response'.cow)) < 60)
       => /\ response'.code /= OK
          /\ NothingStored
          /\ (/\ cows[response'.cow].current_production_status = "Open"
              /\ cows[response'.cow].availability_status /= "Dead"
              /\ cows[response'.cow].gender = "Female")
             => response'.code = "in_heat_after_calving"]_vars

-----------------------------------------------------------------------------
(* Cow breeds (SpecBreed). *)

MaxBreeds == 3

CowBreedChoices == {"Friesian", "Sahiwal", "Jersey", "Guernsey", "Crossbreed", "Ayrshire"}

\* CowBreed.objects.filter(name=name).exists()
BreedExists(name) == \E i \in 1..Len(breeds) : breeds[i] = name

\* validate_breed_name without the test for an existing breed
validate_breed_name_no_duplicate_test(name) ==
    IF name \notin CowBreedChoices THEN "invalid_cow_breed" ELSE OK

\* CowBreedValidator.validate_breed_name
validate_breed_name(name) ==
    IF name \notin CowBreedChoices THEN "invalid_cow_breed"
    ELSE IF BreedExists(name) THEN "duplicate_cow_breed"
    ELSE OK

\* CowBreed.save on the row pk (pk = Len + 1 inserts): the name is validated,
\* then the row is written
SaveBreed(pk, name) ==
    LET code == validate_breed_name(name)
    IN  /\ response = Idle
        /\ pk \in 1..(Len(breeds) + 1)
        /\ pk <= MaxBreeds
        /\ breeds' = IF code /= OK THEN breeds
                     ELSE IF pk = Len(breeds) + 1 THEN Append(breeds, name)
                     ELSE [breeds EXCEPT ![pk] = name]
        /\ response' = [op |-> "breed_save", cow |-> 0, code |-> code,
                        pk |-> IF code = OK THEN pk ELSE 0,
                        body |-> [cow |-> 0, name |-> name]]
        /\ UNCHANGED <<today, cows, pregnancies, lactations, heats, weights, cullings,
                       milks>>

\* DELETE /cow-breeds/<pk>/
DeleteBreed(pk) ==
    /\ response = Idle
    /\ pk \in 1..Len(breeds)
    /\ breeds' = SubSeq(breeds, 1, pk - 1) \o SubSeq(breeds, pk + 1, Len(breeds))
    /\ response' = [op |-> "breed_delete", cow |-> 0, code |-> OK, pk |-> pk,
                    body |-> NoBody]
    /\ UNCHANGED <<today, cows, pregnancies, lactations, heats, weights, cullings,
                   milks>>

\* names offered to save: the taxonomy and a name outside it
BreedNames == CowBreedChoices \cup {"unknown_breed"}

InitBreed == InitWith({Adult})

NextBreed ==
    \/ \E pk \in 1..MaxBreeds, name \in BreedNames : SaveBreed(pk, name)
    \/ \E pk \in 1..Len(breeds) : DeleteBreed(pk)
    \/ ReadResponse

SpecBreed == InitBreed /\ [][NextBreed]_vars

\* C22: no two stored breeds have the same name and every stored name is in
\* the taxonomy; after a save of a name outside the taxonomy the answer is
\* invalid_cow_breed, after a save of a taxonomy name that is already stored
\* it is duplicate_cow_breed, and the breeds are as they were before.
C22_BreedsUniqueAndInTaxonomy ==
    /\ \A i, j \in 1..Len(breeds) : breeds[i] = breeds[j] => i = j
    /\ \A i \in 1..Len(breeds) : breeds[i] \in CowBreedChoices
    /\ response.op = "breed_save"
       => /\ response.body.name \notin CowBreedChoices
             => response.code = "invalid_cow_breed" /\ response.pk = 0
          /\ response.code = "duplicate_cow_breed"
             => response.pk = 0 /\ BreedExists(response.body.name)
          /\ response.code = OK => breeds[response.pk] = response.body.name

\* a save of a stored breed name has just failed as a duplicate
C22_Witness ==
    /\ response.op = "breed_save"
    /\ response.code = "duplicate_cow_breed"
    /\ BreedExists(response.body.name)

-----------------------------------------------------------------------------
(* The age of a cow. *)

-----------------------------------------------------------------------------
(* The lactations of a cow as a history (SpecCalving). *)

\* C24: for each cow the lactation numbers of its stored lactations are
\* 1, 2, ..., n in the order of their start dates, without duplicate or gap.
C24_LactationNumbersFormSequence ==
    \A cow \in CowIds :
        /\ {lactations[i].lactation_number : i \in LactationsOf(cow)}
              = 1..Cardinality(LactationsOf(cow))
        /\ \A i, j \in LactationsOf(cow) :
              /\ i /= j => lactations[i].lactation_number /= lactations[j].lactation_number
              /\ lactations[i].start_date < lactations[j].start_date
                 => lactations[i].lactation_number < lactations[j].lactation_number

-----------------------------------------------------------------------------
(* Updating a cow's availability (PUT/PATCH /cows/<pk>/). *)

\* CowSerializer.update drops breed, gender, sire, dam, is_bought and
\* date_introduced_in_farm from the request; availability_status is written
\* to the instance, which is then saved (clean(), then the row).
UpdateCowAvailability(pk, availability_status) ==
    LET saved == CowSave(pk, [cows[pk] EXCEPT
                                 !.availability_status = availability_status])
    IN  /\ response = Idle
        /\ cows' = saved.cows
        /\ response' = [op |-> "cow_update_availability", cow |-> pk,
                        code |-> saved.code,
                        pk |-> IF saved.code = OK THEN pk ELSE 0,
                        body |-> [cow |-> pk,
                                  availability_status |-> availability_status]]
        /\ UNCHANGED <<today, pregnancies, lactations, heats, weights, cullings,
                       milks, breeds>>

\* both cows are grown cows, alive
InitCow == InitWith({Adult})

NextCow ==
    \/ \E c \in CowIds, a \in CowAvailabilityChoices : UpdateCowAvailability(c, a)
    \/ \E c \in CowIds, ps \in CowPregnancyChoices : UpdateCow(c, ps)
    \/ \E c \in CowIds : CreateCulling(c)
    \/ ReadResponse

SpecCow == InitCow /\ [][NextCow]_vars

\* C25: once a cow's availability_status is Sold or Dead, no cow update and no
\* creation of a child record changes it again.
C25_AvailabilityTerminal ==
    [][\A c \in CowIds :
          cows[c].availability_status \in {"Sold", "Dead"}
          => cows'[c].availability_status = cows[c].availability_status]_vars

-----------------------------------------------------------------------------
(* The stage of a lactation over its lifetime. *)

\* lactations of cow 1 that began 85, 185 or 260 days ago, open or ended today
StageLactations ==
    [cow : {1}, start_date : {today - o : o \in {85, 185, 260}},
     lactation_number : {1}, pregnancy : {0}, actual_end_date : {None, today}]

\* a calving of cow 1 ten days ago
StageCalvings ==
    {PregnancyRecord(1, today - 290, today - 10, <<"Confirmed", None>>, "Live")}

\* both cows are bought cows in milk
InitStage == InitWith({MilkingCow})

NextStage ==
    \/ \E l \in StageLactations : CreateLactation(l)
    \/ \E p \in StageCalvings : CreatePregnancy(p)
    \/ AdvanceDay(15)
    \/ ReadResponse

SpecStage == InitStage /\ [][NextStage]_vars

StageOrder == <<"Early", "Mid", "Late", "Dry", "Ended">>
StageRank(stage) == CHOOSE k \in 1..Len(StageOrder) : StageOrder[k] = stage

\* the stage the rule names for a lactation that began `days` ago
StageByRule(ended, days) ==
    IF ended THEN "Ended"
    ELSE IF days <= 100 THEN "Early"
    ELSE IF days <= 200 THEN "Mid"
    ELSE IF days <= 275 THEN "Late"
    ELSE "Dry"

\* C26: the stage of a lactation is Ended if it has an end date, otherwise
\* Early, Mid, Late or Dry for at most 100, 200, 275 or more days since its
\* start; from one state to the next the stage of a stored lactation never
\* moves back in the order Early, Mid, Late, Dry, Ended.
C26_LactationStage ==
    /\ [](\A i \in 1..Len(lactations) :
             lactation_stage(lactations[i])
               = StageByRule(lactations[i].actual_end_date /= None,
                             today - lactations[i].start_date))
    /\ [][\A i \in 1..Len(lactations) :
             /\ i <= Len(lactations')
             /\ StageRank(lactation_stage(lactations[i]))
                  <= StageRank(lactation_stage(lactations[i])')]_vars

\* a lactation has aged into the Dry stage, and one is on its last Late day
C26_Witness ==
    /\ \E i \in 1..Len(lactations) : lactation_stage(lactations[i]) = "Dry"
    /\ \E i \in 1..Len(lactations) :
          /\ lactations[i].actual_end_date = None
          /\ today - lactations[i].start_date = 275

-----------------------------------------------------------------------------
(* Several pregnancies of one cow. *)

\* pregnancies that began 30 or 60 days ago and have not ended in a calving
OngoingCandidates ==
    {PregnancyRecord(c, today - o, None, sf, NoOutcome) :
        c \in CowIds, o \in {30, 60},
        sf \in {<<"Unconfirmed", None>>, <<"Confirmed", None>>, <<"Failed", today>>}}

\* both cows are grown cows, open
InitPregnancies == InitWith({Adult})

NextPregnancies ==
    \/ \E p \in OngoingCandidates : RecordPregnancy(p)
    \/ \E c \in CowIds, ps \in CowPregnancyChoices : UpdateCow(c, ps)
    \/ ReadResponse

SpecPregnancies == InitPregnancies /\ [][NextPregnancies]_vars

\* a pregnancy without calving date and outcome that has not failed
Ongoing(p) ==
    /\ p.date_of_calving = None
    /\ p.pregnancy_outcome = NoOutcome
    /\ p.pregnancy_status /= "Failed"

\* C27: no cow has two stored pregnancies that are ongoing at the same time.
C27_AtMostOneOngoingPregnancy ==
    \A i, j \in 1..Len(pregnancies) :
        (i /= j /\ pregnancies[i].cow = pregnancies[j].cow)
        => ~(Ongoing(pregnancies[i]) /\ Ongoing(pregnancies[j]))

\* C28: every cow has at most one stored lactation without an actual_end_date.
C28_AtMostOneOpenLactation ==
    \A cow \in CowIds :
        Cardinality({i \in LactationsOf(cow) : lactations[i].actual_end_date = None}) <= 1

-----------------------------------------------------------------------------
(* Saving a stored pregnancy again. *)

\* PUT /pregnancy-records/<pk>/ with the stored values (only the notes differ)
ResavePregnancy(pk) ==
    /\ pk \in 1..Len(pregnancies)
    /\ UpdatePregnancy(pk, pregnancies[pk])

\* pregnancies of cow 1 that began 296 days ago, ongoing or ended in a calving
\* 26 days ago
ResaveCalvings ==
    {PregnancyRecord(1, today - 296, dc, <<"Confirmed", None>>, oc) :
        dc \in {None, today - 26},
        oc \in {NoOutcome, "Live", "Stillborn"}}

\* manual lactations of cow 1 that began 66 days ago
ResaveLactations ==
    {l \in LactationCandidates :
        l.cow = 1 /\ l.start_date = today - 66 /\ l.lactation_number = 1 /\ l.pregnancy = 0
        /\ l.actual_end_date = None}

\* the status a cow is set back to between two pregnancies
ReopenedStatus == {"Open"}

\* cow 1 is a grown cow born on the farm, 700 or 1000 days old, or a bought
\* cow in milk; cow 2 is a grown cow
InitResave ==
    /\ InitWith({Adult, [Adult EXCEPT !.date_of_birth = -1000], MilkingCow})
    /\ cows[2] = Adult

NextResave ==
    \/ \E p \in ResaveCalvings : RecordPregnancy(p)
    \/ \E pk \in 1..Len(pregnancies) : ResavePregnancy(pk)
    \/ \E c \in CowIds, ps \in ReopenedStatus : UpdateCow(c, ps)
    \/ \E l \in ResaveLactations : CreateLactation(l)
    \/ \E pk \in 1..Len(lactations) : DestroyLactation("farm_owner", pk)
    \/ AdvanceDay(30)
    \/ ReadResponse

SpecResave == InitResave /\ [][NextResave]_vars

-----------------------------------------------------------------------------
(* Updating a milk record (PUT/PATCH /milk-records/<pk>/). *)

\* MilkSerializer.update writes cow and amount_in_kgs to the instance
\* (lactation is read-only, milking_date is auto_now_add); Milk.save then runs
\* clean(), the pre_save receiver and the update of the row
UpdateMilk(pk, cow, amount_in_kgs) ==
    LET m == [milks[pk] EXCEPT !.cow = cow, !.amount_in_kgs = amount_in_kgs]
        code == MilkClean(m)
        signal == set_lactation_for_new_milk(m)
        written == code = OK /\ signal.code = OK
    IN  /\ response = Idle
        /\ pk \in 1..Len(milks)
        /\ milks' = IF written THEN [milks EXCEPT ![pk] = signal.instance] ELSE milks
        /\ response' = [op |-> "milk_update", cow |-> cow,
                        code |-> IF code /= OK THEN code ELSE signal.code,
                        pk |-> IF written THEN pk ELSE 0, body |-> m]
        /\ UNCHANGED <<today, cows, pregnancies, lactations, heats, weights,
                       cullings, breeds>>

\* lactations entered for either cow: started today or 276 days ago, open
MilkUpdateLactations ==
    [cow : CowIds, start_date : {today - o : o \in {0, 276}},
     lactation_number : {1}, pregnancy : {0}, actual_end_date : {None}]

\* cow 1 is a bought cow in milk; cow 2 is one too, or a bull
InitMilkUpdate ==
    /\ InitWith({MilkingCow, [MilkingCow EXCEPT !.gender = "Male", !.category = "Bull"]})
    /\ cows[1] = MilkingCow

NextMilkUpdate ==
    \/ \E l \in MilkUpdateLactations : CreateLactation(l)
    \/ \E c \in CowIds, a \in MilkAmounts : CreateMilk(c, a)
    \/ \E pk \in 1..Len(milks), c \in CowIds, a \in MilkAmounts : UpdateMilk(pk, c, a)
    \/ ReadResponse

SpecMilkUpdate == InitMilkUpdate /\ [][NextMilkUpdate]_vars

\* C30: every stored milk record that has a lactation has a lactation of its
\* own cow.
C30_MilkLactationOfOwnCow ==
    \A i \in 1..Len(milks) :
        milks[i].lactation /= 0 => lactations[milks[i].lactation].cow = milks[i].cow

====
